---- MODULE Spec2Model ----
(***************************************************************************)
(* Priority-aware meeting-slot finder (src/app.py): the preference scorer, *)
(* the slot search engine, the displacement resolver and the booking       *)
(* orchestrator.  Times are seconds counted from midnight of day 0; an     *)
(* event is the tuple (start, end, priority, summary) of the source,       *)
(* written as the record [s, e, p, t].                                     *)
(***************************************************************************)
EXTENDS Integers, Sequences, FiniteSets, TLC

\* ------------------------------------------------------------------------
\* Bounds of the model
\* ------------------------------------------------------------------------
MaxEvents == 2
MaxRawEvents == 2
MaxScoreEvents == 4
MaxParseEvents == 3

\* ------------------------------------------------------------------------
\* Time helpers (datetime.hour, datetime.date(), datetime.replace)
\* ------------------------------------------------------------------------
\* datetime.timedelta(minutes=n), and a time of day 0 written in minutes
timedelta(minutes) == minutes * 60

Hour(t) == (t \div 3600) % 24

Date(t) == t \div 86400

\* t.replace(hour=h, minute=0, second=0, microsecond=0)
ReplaceHour(t, h) == Date(t) * 86400 + h * 3600

Abs(x) == IF x < 0 THEN -x ELSE x

Max2(a, b) == IF a >= b THEN a ELSE b

Event(s, e, p, t) == [s |-> s, e |-> e, p |-> p, t |-> t]

\* ------------------------------------------------------------------------
\* Preference registry
\* ------------------------------------------------------------------------
PARTICIPANT_PREFERENCES ==
    [user1 |-> [start |-> 9, end |-> 17, max_meetings_per_day |-> 6,
                avoid_back_to_back |-> TRUE, buffer_minutes |-> 15],
     user2 |-> [start |-> 10, end |-> 18, max_meetings_per_day |-> 4,
                avoid_back_to_back |-> TRUE, buffer_minutes |-> 30],
     user3 |-> [start |-> 8, end |-> 16, max_meetings_per_day |-> 8,
                avoid_back_to_back |-> FALSE, buffer_minutes |-> 0]]

default_preferences ==
    [start |-> 9, end |-> 17, max_meetings_per_day |-> 5,
     avoid_back_to_back |-> TRUE, buffer_minutes |-> 15]

get_user_preferences(user_id) ==
    IF user_id \in DOMAIN PARTICIPANT_PREFERENCES
    THEN PARTICIPANT_PREFERENCES[user_id]
    ELSE default_preferences

\* calendars.get(user_id, [])
CalendarOf(calendars, user_id) ==
    IF user_id \in DOMAIN calendars THEN calendars[user_id] ELSE <<>>

\* ------------------------------------------------------------------------
\* Preference scorer
\* ------------------------------------------------------------------------
WorkingHoursViolation(start_time, end_time, user_id) ==
    LET pref == get_user_preferences(user_id)
    IN  Hour(start_time) < pref.start \/ Hour(end_time) > pref.end

\* Faulty variant: the penalty is due only at exactly the daily limit
DailyLimitViolationExact(start_time, user_id, calendars) ==
    LET pref == get_user_preferences(user_id)
        user_events == CalendarOf(calendars, user_id)
        same_day == {i \in 1..Len(user_events) :
                        Date(user_events[i].s) = Date(start_time)}
    IN  Cardinality(same_day) = pref.max_meetings_per_day

DailyLimitViolation(start_time, user_id, calendars) ==
    LET pref == get_user_preferences(user_id)
        user_events == CalendarOf(calendars, user_id)
        same_day == {i \in 1..Len(user_events) :
                        Date(user_events[i].s) = Date(start_time)}
    IN  Cardinality(same_day) >= pref.max_meetings_per_day

\* time_diff_end < buffer or time_diff_start < buffer, for one event
WithinBuffer(ev, start_time, end_time, buffer_minutes) ==
    \/ Abs(ev.e - start_time) < timedelta(buffer_minutes)
    \/ Abs(end_time - ev.s) < timedelta(buffer_minutes)

\* Faulty variant: the loop goes on after a violation and counts every one
RECURSIVE BufferLoopNoBreak(_, _, _, _, _)
BufferLoopNoBreak(i, user_events, start_time, end_time, buffer_minutes) ==
    IF i > Len(user_events) THEN 0
    ELSE (IF WithinBuffer(user_events[i], start_time, end_time,
                          buffer_minutes)
          THEN 20 ELSE 0)
         + BufferLoopNoBreak(i + 1, user_events, start_time, end_time,
                             buffer_minutes)

\* for event_start, event_end, _, _ in user_events: score += 20 and break
\* at the first event within the buffer
RECURSIVE BufferLoop(_, _, _, _, _)
BufferLoop(i, user_events, start_time, end_time, buffer_minutes) ==
    IF i > Len(user_events) THEN 0
    ELSE IF WithinBuffer(user_events[i], start_time, end_time,
                         buffer_minutes)
    THEN 20
    ELSE BufferLoop(i + 1, user_events, start_time, end_time,
                    buffer_minutes)

\* if preferences["avoid_back_to_back"]: the loop over the user's events
BackToBackPenalty(start_time, end_time, user_id, calendars) ==
    LET pref == get_user_preferences(user_id)
    IN  IF pref.avoid_back_to_back
        THEN BufferLoop(1, CalendarOf(calendars, user_id), start_time,
                        end_time, pref.buffer_minutes)
        ELSE 0

UserScore(start_time, end_time, user_id, calendars) ==
      (IF WorkingHoursViolation(start_time, end_time, user_id) THEN 50 ELSE 0)
    + (IF DailyLimitViolation(start_time, user_id, calendars) THEN 30 ELSE 0)
    + BackToBackPenalty(start_time, end_time, user_id, calendars)

RECURSIVE ScoreFrom(_, _, _, _, _)
ScoreFrom(i, start_time, end_time, attendees, calendars) ==
    IF i > Len(attendees) THEN 0
    ELSE UserScore(start_time, end_time, attendees[i], calendars)
         + ScoreFrom(i + 1, start_time, end_time, attendees, calendars)

calculate_preference_score(start_time, end_time, attendees, calendars) ==
    ScoreFrom(1, start_time, end_time, attendees, calendars)

\* ------------------------------------------------------------------------
\* Slot search engine
\* ------------------------------------------------------------------------
\* Values a caller may pass where an integer is expected.
IntVal(n) == [tag |-> "int", v |-> n]
StrVal == [tag |-> "str", v |-> 0]
Absent == [tag |-> "absent", v |-> 0]

\* A time of day 0, given in minutes after midnight, as a value
At(minutes) == IntVal(timedelta(minutes))

Pending == [kind |-> "pending", s |-> 0, e |-> 0, displaced |-> <<>>]
NotFound == [kind |-> "none", s |-> 0, e |-> 0, displaced |-> <<>>]
Raised == [kind |-> "error", s |-> 0, e |-> 0, displaced |-> <<>>]
Found(s, e, displaced) ==
    [kind |-> "slot", s |-> s, e |-> e, displaced |-> displaced]

RECURSIVE MinOver(_, _, _)
MinOver(i, attendees, acc) ==
    IF i > Len(attendees) THEN acc
    ELSE LET h == get_user_preferences(attendees[i]).start
         IN  MinOver(i + 1, attendees, IF h < acc THEN h ELSE acc)

RECURSIVE MaxOver(_, _, _)
MaxOver(i, attendees, acc) ==
    IF i > Len(attendees) THEN acc
    ELSE LET h == get_user_preferences(attendees[i]).end
         IN  MaxOver(i + 1, attendees, IF h > acc THEN h ELSE acc)

earliest_start_hour(attendees) ==
    MinOver(2, attendees, get_user_preferences(attendees[1]).start)

latest_end_hour(attendees) ==
    MaxOver(2, attendees, get_user_preferences(attendees[1]).end)

\* Faulty variant: the origin is searched from as it was given
ClampOriginNever(search_start_time, attendees) == search_start_time

\* if search_start_time.hour < earliest_start_hour: replace(hour=..., minute=0)
ClampOrigin(search_start_time, attendees) ==
    IF Hour(search_start_time) < earliest_start_hour(attendees)
    THEN ReplaceHour(search_start_time, earliest_start_hour(attendees))
    ELSE search_start_time

\* all_busy_slots.extend(calendars[user_id]) for each attendee, in order
RECURSIVE Aggregate(_, _, _)
Aggregate(i, attendees, calendars) ==
    IF i > Len(attendees) THEN <<>>
    ELSE CalendarOf(calendars, attendees[i])
         \o Aggregate(i + 1, attendees, calendars)

\* list.sort(key=lambda x: x[0]): stable insertion by start time
RECURSIVE InsertByStart(_, _)
InsertByStart(sorted, ev) ==
    IF sorted = <<>> THEN <<ev>>
    ELSE IF sorted[Len(sorted)].s <= ev.s THEN Append(sorted, ev)
    ELSE Append(InsertByStart(SubSeq(sorted, 1, Len(sorted) - 1), ev),
                sorted[Len(sorted)])

RECURSIVE SortFrom(_, _, _)
SortFrom(i, events, acc) ==
    IF i > Len(events) THEN acc
    ELSE SortFrom(i + 1, events, InsertByStart(acc, events[i]))

SortByStart(events) == SortFrom(1, events, <<>>)

all_busy_slots(calendars, attendees) ==
    SortByStart(Aggregate(1, attendees, calendars))

\* Faulty variant: an interval that starts exactly where the last one ends is
\* merged into it as well
RECURSIVE MergeFromAdjacent(_, _, _)
MergeFromAdjacent(i, busy, merged) ==
    IF i > Len(busy) THEN merged
    ELSE LET last == merged[Len(merged)]
         IN  IF busy[i].s <= last.e
             THEN MergeFromAdjacent(i + 1, busy,
                    [merged EXCEPT ![Len(merged)] =
                        [s |-> last.s, e |-> Max2(last.e, busy[i].e)]])
             ELSE MergeFromAdjacent(i + 1, busy,
                    Append(merged, [s |-> busy[i].s, e |-> busy[i].e]))

\* merged_busy_slots: intervals [s, e] merged when current_start < last_end
RECURSIVE MergeFrom(_, _, _)
MergeFrom(i, busy, merged) ==
    IF i > Len(busy) THEN merged
    ELSE LET last == merged[Len(merged)]
         IN  IF busy[i].s < last.e
             THEN MergeFrom(i + 1, busy,
                    [merged EXCEPT ![Len(merged)] =
                        [s |-> last.s, e |-> Max2(last.e, busy[i].e)]])
             ELSE MergeFrom(i + 1, busy,
                    Append(merged, [s |-> busy[i].s, e |-> busy[i].e]))

merged_busy_slots(busy) ==
    IF busy = <<>> THEN <<>>
    ELSE MergeFrom(2, busy, <<[s |-> busy[1].s, e |-> busy[1].e]>>)

\* Hour-granularity working-hours checks of the candidate slots
EndHourOk(candidate_end, attendees) ==
    Hour(candidate_end) <= latest_end_hour(attendees)

StartHourOk(candidate_start, attendees) ==
    Hour(candidate_start) >= earliest_start_hour(attendees)

ScoreOk(candidate_start, candidate_end, attendees, calendars, max_score) ==
    calculate_preference_score(candidate_start, candidate_end,
                               attendees, calendars) <= max_score

\* Faulty variant: the gap before the first busy period is never tried
FirstGapSkipped(calendars, attendees, dur, origin, max_score, merged) ==
    NotFound

\* Free slot before the first busy period
FirstGap(calendars, attendees, dur, origin, max_score, merged) ==
    IF /\ (merged = <<>> \/ origin + dur <= merged[1].s)
       /\ EndHourOk(origin + dur, attendees)
       /\ ScoreOk(origin, origin + dur, attendees, calendars, max_score)
    THEN Found(origin, origin + dur, <<>>)
    ELSE NotFound

\* Free slots between busy periods; the gap after the last one is open
RECURSIVE GapLoop(_, _, _, _, _, _, _)
GapLoop(i, search_pointer, calendars, attendees, dur, max_score, merged) ==
    IF i > Len(merged) THEN NotFound
    ELSE LET gap_start == IF search_pointer < merged[i].e
                          THEN merged[i].e ELSE search_pointer
             fits == IF i + 1 <= Len(merged)
                     THEN gap_start + dur <= merged[i + 1].s
                     ELSE TRUE
         IN  IF /\ fits
                /\ StartHourOk(gap_start, attendees)
                /\ EndHourOk(gap_start + dur, attendees)
                /\ ScoreOk(gap_start, gap_start + dur, attendees,
                           calendars, max_score)
             THEN Found(gap_start, gap_start + dur, <<>>)
             ELSE GapLoop(i + 1, gap_start, calendars, attendees, dur,
                          max_score, merged)

\* Faulty variant: an event that only touches the slot counts as a conflict
OverlapsOrTouches(ev, potential_start, potential_end) ==
    ev.s <= potential_end /\ potential_start <= ev.e

\* event[0] < potential_end and potential_start < event[1]
Overlaps(ev, potential_start, potential_end) ==
    ev.s < potential_end /\ potential_start < ev.e

conflicting_events(busy, potential_start, potential_end) ==
    SelectSeq(busy, LAMBDA ev : Overlaps(ev, potential_start, potential_end))

\* Faulty variant: an event of equal priority may be displaced
can_reschedule_or_equal(new_meeting_priority, conflicts) ==
    \A i \in 1..Len(conflicts) : new_meeting_priority <= conflicts[i].p

\* all(new_meeting_priority < conf_priority for ... in conflicting_events)
can_reschedule(new_meeting_priority, conflicts) ==
    \A i \in 1..Len(conflicts) : new_meeting_priority < conflicts[i].p

\* Second pass: slots occupied by lower-priority meetings only
RECURSIVE RescheduleLoop(_, _, _, _, _, _, _, _)
RescheduleLoop(i, busy, calendars, attendees, dur, prio, origin, max_score) ==
    IF i > Len(busy) THEN NotFound
    ELSE LET potential_start == Max2(busy[i].s, origin)
             potential_end == potential_start + dur
             conflicts == conflicting_events(busy, potential_start,
                                             potential_end)
         IN  IF /\ StartHourOk(potential_start, attendees)
                /\ EndHourOk(potential_end, attendees)
                /\ can_reschedule(prio, conflicts)
                /\ ScoreOk(potential_start, potential_end, attendees,
                           calendars, max_score)
             THEN Found(potential_start, potential_end, conflicts)
             ELSE RescheduleLoop(i + 1, busy, calendars, attendees, dur,
                                 prio, origin, max_score)

\* The search proper, once the arguments have been validated
SearchSlot(calendars, attendees, dur, prio, search_start_time, max_score) ==
    LET meeting_duration == timedelta(dur)
        origin == ClampOrigin(search_start_time, attendees)
        busy == all_busy_slots(calendars, attendees)
        merged == merged_busy_slots(busy)
        first == FirstGap(calendars, attendees, meeting_duration, origin,
                          max_score, merged)
        gaps == GapLoop(1, origin, calendars, attendees, meeting_duration,
                        max_score, merged)
    IN  IF first.kind = "slot" THEN first
        ELSE IF gaps.kind = "slot" THEN gaps
        ELSE RescheduleLoop(1, busy, calendars, attendees, meeting_duration,
                            prio, origin, max_score)

\* Faulty variant: a duration of zero or less is let through
ArgumentsRejectedButDuration(attendees, duration_minutes, new_meeting_priority, search_start_time) ==
    \/ attendees = <<>>
    \/ duration_minutes.tag # "int"
    \/ new_meeting_priority.tag # "int"
    \/ new_meeting_priority.v < 1
    \/ new_meeting_priority.v > 4
    \/ search_start_time.tag = "str"

\* The calendars argument as find_earliest_slot leaves it: all_busy_slots is
\* a list of its own, extend() copies the tuples into it and sort() orders
\* that list, so the lists of the mapping keep their tuples and their order
CalendarsAfterSearch(calendars, attendees) == calendars

\* Input validation of find_earliest_slot: a raised ValueError (TypeError
\* for a duration that cannot be compared with 0)
ArgumentsRejected(attendees, duration_minutes, new_meeting_priority, search_start_time) ==
    \/ attendees = <<>>
    \/ duration_minutes.tag # "int"
    \/ duration_minutes.v <= 0
    \/ new_meeting_priority.tag # "int"
    \/ new_meeting_priority.v < 1
    \/ new_meeting_priority.v > 4
    \/ search_start_time.tag = "str"

\* if search_start_time is None: search_start_time = datetime.now()
OriginOrNow(search_start_time, now) ==
    IF search_start_time.tag = "absent" THEN now ELSE search_start_time.v

find_earliest_slot(calendars, attendees, duration_minutes, new_meeting_priority, search_start_time, max_score, now) ==
    IF ArgumentsRejected(attendees, duration_minutes, new_meeting_priority,
                         search_start_time)
    THEN Raised
    ELSE SearchSlot(calendars, attendees, duration_minutes.v,
                    new_meeting_priority.v,
                    OriginOrNow(search_start_time, now), max_score)

\* ------------------------------------------------------------------------
\* Calendar normalizer
\* ------------------------------------------------------------------------
\* A raw event record: every field is present with a value or absent; a
\* summary is a string, known here by the keywords it contains.
ListVal(q) == [tag |-> "list", v |-> q]
TextVal(name) == [tag |-> "text", v |-> name]

RawEvent(start, end, attendees, summary, priority) ==
    [StartTime |-> start, EndTime |-> end, Attendees |-> attendees,
     Summary |-> summary, Priority |-> priority]

\* keyword in summary
ContainsKeyword(summary, keyword) ==
    CASE keyword = "Client Call" ->
            summary \in {"Client Call", "Client Call Design Review"}
      [] keyword = "Design Review" ->
            summary \in {"Design Review", "Client Call Design Review"}
      [] OTHER -> FALSE

\* next((p for keyword, p in priority_map.items() if keyword in summary), 4)
KeywordPriority(summary) ==
    IF ContainsKeyword(summary, "Client Call") THEN 2
    ELSE IF ContainsKeyword(summary, "Design Review") THEN 3
    ELSE 4

\* summary = event.get('Summary', 'No Title')
SummaryOf(event) ==
    IF event.Summary.tag = "text" THEN event.Summary.v ELSE "No Title"

\* Faulty variant: a keyword in the title wins over the explicit priority
ResolvedPriorityKeywordFirst(event) ==
    IF KeywordPriority(SummaryOf(event)) # 4
    THEN IntVal(KeywordPriority(SummaryOf(event)))
    ELSE IF event.Priority.tag = "absent" THEN IntVal(4)
    ELSE event.Priority

\* priority = event.get('Priority'), resolved by keyword when it is None
ResolvedPriority(event) ==
    IF event.Priority.tag = "absent"
    THEN IntVal(KeywordPriority(SummaryOf(event)))
    ELSE event.Priority

\* How the body of the loop ends for one record: with a continue, with an
\* exception (fromisoformat raises ValueError for a string that is no ISO
\* time) or with the appends to the attendees' lists
RecordOutcome(event) ==
    IF event.StartTime.tag = "absent" \/ event.EndTime.tag = "absent"
    THEN "continue"
    ELSE IF event.Attendees.tag = "absent" \/ event.Attendees.v = <<>>
    THEN "continue"
    ELSE IF event.StartTime.tag # "int" \/ event.EndTime.tag # "int"
    THEN "ValueError"
    ELSE IF event.StartTime.v >= event.EndTime.v
    THEN "continue"
    ELSE IF \/ ResolvedPriority(event).tag # "int"
            \/ ResolvedPriority(event).v < 1
            \/ ResolvedPriority(event).v > 4
    THEN "continue"
    ELSE "append"

\* Faulty variant: the loop catches KeyError only
CaughtKeyErrorOnly(exception) == exception = "KeyError"

\* except (KeyError, TypeError, ValueError): continue
Caught(exception) == exception \in {"KeyError", "TypeError", "ValueError"}

\* The record is skipped: a continue, or an exception caught by the loop
RecordSkipped(event) ==
    \/ RecordOutcome(event) = "continue"
    \/ RecordOutcome(event) # "append" /\ Caught(RecordOutcome(event))

\* An exception that the loop does not catch leaves parse_calendar_data
RecordRaises(event) ==
    /\ RecordOutcome(event) \notin {"continue", "append"}
    /\ ~Caught(RecordOutcome(event))

ParseRaises(raw_events) ==
    \E i \in 1..Len(raw_events) : RecordRaises(raw_events[i])

ParsedTuple(event) ==
    Event(event.StartTime.v, event.EndTime.v, ResolvedPriority(event).v,
          SummaryOf(event))

\* A dict in insertion order: its keys and the list of each key
EmptyDict == [keys |-> <<>>, val |-> [u \in {} |-> <<>>]]

InKeys(d, k) == \E i \in 1..Len(d.keys) : d.keys[i] = k

\* parsed_calendars[attendee].append(tuple) on a defaultdict(list)
DictAppend(d, k, x) ==
    IF InKeys(d, k)
    THEN [d EXCEPT !.val[k] = Append(@, x)]
    ELSE [keys |-> Append(d.keys, k),
          val |-> [u \in DOMAIN d.val \cup {k} |->
                      IF u = k THEN <<x>> ELSE d.val[u]]]

\* for attendee in event['Attendees']: an empty attendee entry is skipped
RECURSIVE FanOut(_, _, _, _)
FanOut(i, attendees, tuple, d) ==
    IF i > Len(attendees) THEN d
    ELSE FanOut(i + 1, attendees, tuple,
                IF attendees[i] = "" THEN d
                ELSE DictAppend(d, attendees[i], tuple))

RECURSIVE ParseFrom(_, _, _)
ParseFrom(i, raw_events, d) ==
    IF i > Len(raw_events) THEN d
    ELSE ParseFrom(i + 1, raw_events,
                   IF RecordSkipped(raw_events[i]) THEN d
                   ELSE FanOut(1, raw_events[i].Attendees.v,
                               ParsedTuple(raw_events[i]), d))

parse_calendar_data(raw_events) == ParseFrom(1, raw_events, EmptyDict)

\* ------------------------------------------------------------------------
\* Displacement resolver
\* ------------------------------------------------------------------------
\* event[0] == conf_start and event[1] == conf_end and event[3] == conf_summary
MatchesAny(ev, meetings_to_reschedule) ==
    \E i \in 1..Len(meetings_to_reschedule) :
        /\ ev.s = meetings_to_reschedule[i].s
        /\ ev.e = meetings_to_reschedule[i].e
        /\ ev.t = meetings_to_reschedule[i].t

\* Faulty variant: the working copy is the caller's mapping itself
WorkingCopySharesAll(calendars) == DOMAIN calendars

\* The participants whose list in the working copy is the very list object
\* of the caller's mapping: none, since events.copy() and the list
\* comprehension that filters it both build a new list
WorkingCopyShares(calendars) == {}

\* What the caller's mapping holds once the working copy has been written
\* to: a list shared with the working copy shows the writes
SeenByCaller(calendars, working, shared) ==
    [u \in DOMAIN calendars |->
        IF u \in shared THEN working[u] ELSE calendars[u]]

\* requirewna: the working copy without the conflicting meetings and with
\* the new meeting appended to every participant's list
WorkingCopy(calendars, meetings_to_reschedule, new_meeting) ==
    [u \in DOMAIN calendars |->
        Append(SelectSeq(calendars[u],
                         LAMBDA ev : ~MatchesAny(ev, meetings_to_reschedule)),
               new_meeting)]

\* attendees_map.get(summary, list(updated_calendars.keys()))
MeetingAttendees(attendees_map, summary, calendar_keys) ==
    IF summary \in DOMAIN attendees_map THEN attendees_map[summary]
    ELSE calendar_keys

\* updated_calendars[attendee].append(...) for the attendees that have a list
AppendRelocated(calendars, meeting_attendees, tuple) ==
    [u \in DOMAIN calendars |->
        IF \E i \in 1..Len(meeting_attendees) : meeting_attendees[i] = u
        THEN calendars[u] \o
             [i \in 1..Cardinality({j \in 1..Len(meeting_attendees) :
                                       meeting_attendees[j] = u}) |-> tuple]
        ELSE calendars[u]]

\* Faulty variant: the resolver searches from the start of the new meeting's
\* day
search_start_of_day(new_end) == ReplaceHour(new_end, 0)

\* search_start = new_end if new_end else now: the floor requirewna hands
\* to the resolver is the end of the new meeting
search_start(new_end) == new_end

\* Faulty variant: the recursion keeps the floor of its caller
FurtherFloorKept(search_start_time, new_end) == search_start_time

\* The floor of the recursive call for further_conflicts: new_end, the end
\* of the meeting that has just been relocated
FurtherFloor(search_start_time, new_end) == new_end

\* int((original_end - original_start).total_seconds() / 60): the length of
\* the event in whole minutes
original_duration(original_start, original_end) ==
    (original_end - original_start) \div 60

\* One frame of reschedule_meetings_recursively: the list it walks, the
\* position in it and its search_start_time
Frame(meetings, floor) == [list |-> meetings, idx |-> 1, floor |-> floor]

\* Faulty variant: a frame whose loop is over never returns
PopFinishedNever(frames) == frames

\* Frames whose loop is over return to their caller
RECURSIVE PopFinished(_)
PopFinished(frames) ==
    IF frames = <<>> THEN frames
    ELSE IF frames[Len(frames)].idx > Len(frames[Len(frames)].list)
    THEN PopFinished(SubSeq(frames, 1, Len(frames) - 1))
    ELSE frames

Relocated(meeting, new_start, new_end) ==
    [kind |-> "relocated", subject |-> meeting.t, priority |-> meeting.p,
     start |-> new_start, end |-> new_end,
     original_start |-> meeting.s, original_end |-> meeting.e]

NeedsManual(meeting) ==
    [kind |-> "manual", subject |-> meeting.t, priority |-> meeting.p,
     start |-> meeting.s, end |-> meeting.e,
     original_start |-> meeting.s, original_end |-> meeting.e]

\* ------------------------------------------------------------------------
\* Booking orchestrator: pure parts
\* ------------------------------------------------------------------------
\* meeting_request.get("Duration of meeting", 60)
DurationOf(request) ==
    IF request.duration.tag = "absent" THEN IntVal(60) ELSE request.duration

\* meeting_request.get("Priority", 1)
PriorityOf(request) ==
    IF request.priority.tag = "absent" THEN IntVal(1) ELSE request.priority

\* not meeting_request: the request dict has no key at all
RequestEmpty(request) ==
    /\ request.duration.tag = "absent"
    /\ request.start.tag = "absent"
    /\ request.priority.tag = "absent"
    /\ request.subject.tag = "absent"

\* The early returns of the validation block
RequestRejected(calendars, request) ==
    \/ calendars.keys = <<>>
    \/ RequestEmpty(request)
    \/ request.start.tag # "int"
    \/ PriorityOf(request).tag # "int"
    \/ PriorityOf(request).v < 1
    \/ PriorityOf(request).v > 4

\* [event for user_events in user_calendars.values() for event in user_events]
RECURSIVE Flatten(_, _)
Flatten(i, calendars) ==
    IF i > Len(calendars.keys) THEN <<>>
    ELSE calendars.val[calendars.keys[i]] \o Flatten(i + 1, calendars)

\* parse_calendar_data, or {attendee: [] for attendee in attendees}
ParsedCalendars(calendars) ==
    LET parsed == parse_calendar_data(Flatten(1, calendars))
    IN  IF parsed.keys = <<>>
        THEN [keys |-> calendars.keys,
              val |-> [u \in {calendars.keys[i] :
                                i \in 1..Len(calendars.keys)} |-> <<>>]]
        ELSE parsed

\* Faulty variant: the duration is halved
shorter_duration_half(duration_minutes) == duration_minutes \div 2

\* int(duration_minutes * 0.75)
shorter_duration(duration_minutes) == (duration_minutes * 3) \div 4

\* attendees[:len(attendees)//2 + 1]
majority_attendees(attendees) ==
    SubSeq(attendees, 1, (Len(attendees) \div 2) + 1)

Attempt(strategy, attendees, dur, origin, tolerance, shift) ==
    [strategy |-> strategy, attendees |-> attendees, duration |-> dur,
     origin |-> origin, tolerance |-> tolerance, shift |-> shift]

ShiftAttempt(attendees, dur, origin, shift) ==
    Attempt("time_shift", attendees, dur, origin + timedelta(shift), 100,
            shift)

\* Faulty variant: the relaxed tolerance is tried before the time shifts
AttemptPlanRelaxedBeforeShifts(attendees, duration, origin) ==
    LET d == duration.v
    IN  <<Attempt("primary", attendees, duration, origin, 100, 0)>>
        \o (IF duration.tag = "int" /\ (d * 3) \div 4 >= 15
            THEN <<Attempt("shorter_duration", attendees,
                           IntVal((d * 3) \div 4), origin, 100, 0)>>
            ELSE <<>>)
        \o (IF Len(attendees) > 2
            THEN <<Attempt("majority_attendees",
                           majority_attendees(attendees), duration, origin,
                           100, 0)>>
            ELSE <<>>)
        \o <<Attempt("relaxed_preferences", attendees, duration, origin,
                     200, 0),
             ShiftAttempt(attendees, duration, origin, 30),
             ShiftAttempt(attendees, duration, origin, -30),
             ShiftAttempt(attendees, duration, origin, 60),
             ShiftAttempt(attendees, duration, origin, -60)>>

\* The searches of schedule_meeting_from_request in the order of the code;
\* the fallbacks are planned only for a duration the primary search accepts
AttemptPlan(attendees, duration, origin) ==
    LET d == duration.v
    IN  <<Attempt("primary", attendees, duration, origin, 100, 0)>>
        \o (IF duration.tag = "int" /\ shorter_duration(d) >= 15
            THEN <<Attempt("shorter_duration", attendees,
                           IntVal(shorter_duration(d)), origin, 100, 0)>>
            ELSE <<>>)
        \o (IF Len(attendees) > 2
            THEN <<Attempt("majority_attendees",
                           majority_attendees(attendees), duration, origin,
                           100, 0)>>
            ELSE <<>>)
        \o <<ShiftAttempt(attendees, duration, origin, 30),
             ShiftAttempt(attendees, duration, origin, -30),
             ShiftAttempt(attendees, duration, origin, 60),
             ShiftAttempt(attendees, duration, origin, -60),
             Attempt("relaxed_preferences", attendees, duration, origin,
                     200, 0)>>

\* What schedule_meeting_from_request returns
NoResponse == [kind |-> "pending", success |-> FALSE, meetings |-> <<>>,
               fallback_used |-> "", rescheduling_required |-> FALSE,
               error |-> ""]
ReturnedNone == [kind |-> "None", success |-> FALSE, meetings |-> <<>>,
                 fallback_used |-> "", rescheduling_required |-> FALSE,
                 error |-> ""]

\* Faulty variant: the failure is raised instead of being returned
FailureRaised == [kind |-> "raised", success |-> FALSE, meetings |-> <<>>,
                  fallback_used |-> "", rescheduling_required |-> FALSE,
                  error |-> "No available slot found"]

\* The dict returned when every search has failed
ReturnedFailure ==
    [kind |-> "dict", success |-> FALSE, meetings |-> <<>>,
     fallback_used |-> "", rescheduling_required |-> FALSE,
     error |-> "No available slot found after trying all fallback strategies"]
ReturnedSuccess(meetings, fallback_used, rescheduling_required) ==
    [kind |-> "dict", success |-> TRUE, meetings |-> meetings,
     fallback_used |-> fallback_used,
     rescheduling_required |-> rescheduling_required, error |-> ""]

\* The new meeting as it is reported and as it is put on the calendars
NewMeeting(request, slot) ==
    [kind |-> "new", subject |-> request.subject.v,
     priority |-> PriorityOf(request).v,
     start |-> slot.s, end |-> slot.e,
     original_start |-> slot.s, original_end |-> slot.e]

\* ------------------------------------------------------------------------
\* State
\* ------------------------------------------------------------------------
VARIABLES
    request,            \* the meeting request passed to the orchestrator
    user_calendars,     \* the raw per-user calendars passed to it
    pc,                 \* where schedule_meeting_from_request is
    attempt,            \* index of the next search in the attempt plan
    parsed_calendars,   \* parse_calendar_data's result
    calls,              \* every find_earliest_slot call made, with its result
    booking,            \* the result that _handle_successful_booking receives
    updated_calendars,  \* requirewna's working copy
    attendees_map,      \* summary -> attendees, built for the resolver
    stack,              \* active frames of reschedule_meetings_recursively
    outcomes,           \* rescheduled_meetings, in the order they are added
    response,           \* what schedule_meeting_from_request returned
    probe,              \* arguments of a direct call of find_earliest_slot
    probeResult         \* what that call returned

vars == <<request, user_calendars, pc, attempt, parsed_calendars, calls,
          booking, updated_calendars, attendees_map, stack, outcomes,
          response, probe, probeResult>>

orchestratorVars == <<request, user_calendars, pc, attempt, parsed_calendars,
                      calls, booking, updated_calendars, attendees_map,
                      stack, outcomes, response>>

NoBooking == [slot |-> Pending, fallback_used |-> "", attendees |-> <<>>]
NoCalendars == [u \in {} |-> <<>>]
NoProbe == [calendars |-> NoCalendars, attendees |-> <<>>,
            duration_minutes |-> Absent, new_meeting_priority |-> Absent,
            search_start_time |-> Absent, max_preference_score |-> 0,
            now |-> 0]
NoRequest == [duration |-> Absent, start |-> Absent, priority |-> Absent,
              subject |-> Absent]

\* The orchestrator before it is called
OrchestratorIdle ==
    /\ attempt = 0
    /\ parsed_calendars = EmptyDict
    /\ calls = <<>>
    /\ booking = NoBooking
    /\ updated_calendars = NoCalendars
    /\ attendees_map = NoCalendars
    /\ stack = <<>>
    /\ outcomes = <<>>
    /\ response = NoResponse

\* ------------------------------------------------------------------------
\* Inputs of the slot search engine
\* ------------------------------------------------------------------------
\* Intervals the calendar events are drawn from, in minutes: [09:00,10:00),
\* [10:00,11:00), [09:00,16:00), [10:15,17:15)
Intervals == << <<540, 600>>, <<600, 660>>, <<540, 960>>, <<615, 1035>> >>

Owners == <<"user1", "user2">>

PoolSize == Len(Intervals) * 4 * Len(Owners)

\* The k-th event of the pool and the participant whose calendar holds it:
\* every interval with every priority 1..4, for every owner
PoolEntry(k) ==
    LET iv == Intervals[((k - 1) \div (4 * Len(Owners))) + 1]
        prio == (((k - 1) \div Len(Owners)) % 4) + 1
    IN  [owner |-> Owners[((k - 1) % Len(Owners)) + 1],
         ev |-> Event(timedelta(iv[1]), timedelta(iv[2]), prio, "M")]

\* Lists of at most n distinct pool entries (listed by decreasing index, so
\* a calendar list is in general not sorted by start time)
RECURSIVE EntryLists(_)
EntryLists(n) ==
    IF n = 0 THEN { <<>> }
    ELSE LET shorter == EntryLists(n - 1)
         IN  shorter \cup
             { Append(q, k) : q \in { r \in shorter : Len(r) = n - 1 },
                              k \in 1..PoolSize }

Decreasing(q) == \A i \in 1..(Len(q) - 1) : q[i] > q[i + 1]

\* The events of one participant, in the order of the entry list
EventsOf(entries, u) ==
    LET mine == SelectSeq(entries, LAMBDA k : PoolEntry(k).owner = u)
    IN  [i \in 1..Len(mine) |-> PoolEntry(mine[i]).ev]

CalendarFrom(entries) ==
    [u \in {PoolEntry(entries[i]).owner : i \in 1..Len(entries)} |->
        EventsOf(entries, u)]

ProbeCalendars ==
    { CalendarFrom(q) : q \in { r \in EntryLists(MaxEvents) : Decreasing(r) } }

ProbeAttendees ==
    { <<"user1">>, <<"user2", "user1">>, <<"user1", "user2", "user3">> }

ProbeDurations == { IntVal(60), IntVal(120) }

ProbePriorities == { IntVal(p) : p \in 1..4 }

\* 08:30, 22:30, or no origin given
ProbeOrigins == { IntVal(timedelta(510)), IntVal(timedelta(1350)), Absent }

ProbeTolerances == { 100, 150 }

\* datetime.now() at the time of the call: 10:00
ProbeClock == { timedelta(600) }

\* Arguments that are all valid. The tolerance 150 is tried where it can
\* differ from 100: with more than one attendee (one attendee scores at most
\* 100) and an origin within the day
ValidArguments ==
    { a \in [attendees : ProbeAttendees,
             duration_minutes : ProbeDurations,
             new_meeting_priority : ProbePriorities,
             search_start_time : ProbeOrigins,
             max_preference_score : ProbeTolerances,
             now : ProbeClock] :
        a.max_preference_score = 150 =>
            /\ Len(a.attendees) > 1
            /\ a.search_start_time # IntVal(timedelta(1350)) }

\* The arguments (user1, 60 minutes, priority 2, 08:30, tolerance 100) with
\* one of them invalid
FaultyArguments ==
    LET base == [attendees |-> <<"user1">>,
                 duration_minutes |-> IntVal(60),
                 new_meeting_priority |-> IntVal(2),
                 search_start_time |-> IntVal(timedelta(510)),
                 max_preference_score |-> 100, now |-> timedelta(600)]
    IN  { [base EXCEPT !.attendees = <<>>],
          [base EXCEPT !.search_start_time = StrVal] }
        \cup { [base EXCEPT !.duration_minutes = d] :
                 d \in {IntVal(0), IntVal(-30), StrVal} }
        \cup { [base EXCEPT !.new_meeting_priority = p] :
                 p \in {IntVal(0), IntVal(5), StrVal} }

ProbeArguments == ValidArguments \cup FaultyArguments

SearchInit ==
    /\ \E c \in ProbeCalendars, a \in ProbeArguments :
           probe = [calendars |-> c, attendees |-> a.attendees,
                    duration_minutes |-> a.duration_minutes,
                    new_meeting_priority |-> a.new_meeting_priority,
                    search_start_time |-> a.search_start_time,
                    max_preference_score |-> a.max_preference_score,
                    now |-> a.now]
    /\ probeResult = Pending
    /\ request = NoRequest
    /\ user_calendars = EmptyDict
    /\ pc = "Idle"
    /\ OrchestratorIdle

CallFindEarliestSlot ==
    /\ pc = "Idle"
    /\ probeResult = Pending
    /\ probeResult' = find_earliest_slot(probe.calendars, probe.attendees,
                           probe.duration_minutes, probe.new_meeting_priority,
                           probe.search_start_time,
                           probe.max_preference_score, probe.now)
    /\ probe' = [probe EXCEPT !.calendars =
                     CalendarsAfterSearch(@, probe.attendees)]
    /\ UNCHANGED orchestratorVars

SearchNext == CallFindEarliestSlot

SpecSearch == SearchInit /\ [][SearchNext]_vars

\* ------------------------------------------------------------------------
\* Properties of the slot search engine (under SpecSearch)
\* ------------------------------------------------------------------------
\* The events of the attendees of the direct call
ProbeEvents ==
    UNION { { CalendarOf(probe.calendars, probe.attendees[i])[j] :
                j \in 1..Len(CalendarOf(probe.calendars,
                                        probe.attendees[i])) } :
            i \in 1..Len(probe.attendees) }

ProbeDuration == timedelta(probe.duration_minutes.v)

ProbePriority == probe.new_meeting_priority.v

\* The origin the search starts from, after the clamp to the working window
ProbeOrigin ==
    ClampOrigin(OriginOrNow(probe.search_start_time, probe.now),
                probe.attendees)

DisplacedSet ==
    { probeResult.displaced[i] : i \in 1..Len(probeResult.displaced) }

\* C1: whenever find_earliest_slot returns (slot, displaced), every event of
\* displaced has a priority strictly greater than the priority of the new
\* meeting; an event of equal or numerically lower priority is never
\* returned for displacement.
C1_DisplacedStrictlyLowerPriority ==
    probeResult.kind = "slot" =>
        \A i \in 1..Len(probeResult.displaced) :
            probeResult.displaced[i].p > ProbePriority

\* A displacing result on calendars that also hold an event the new meeting
\* may not displace
C1_Witness ==
    /\ probeResult.kind = "slot"
    /\ probeResult.displaced # <<>>
    /\ \E ev \in ProbeEvents : ev.p <= ProbePriority

\* C2: for every result (slot, displaced), an event of an attendee's
\* calendar overlaps the half-open slot [start, end) if and only if it is in
\* displaced; a result with an empty displaced list overlaps no event.
C2_OverlapIffDisplaced ==
    probeResult.kind = "slot" =>
        /\ DisplacedSet \subseteq ProbeEvents
        /\ \A ev \in ProbeEvents :
               (ev.s < probeResult.e /\ probeResult.s < ev.e)
                   <=> ev \in DisplacedSet

\* A displacing result that leaves another event of the attendees in place
C2_Witness ==
    /\ probeResult.kind = "slot"
    /\ probeResult.displaced # <<>>
    /\ ProbeEvents \ DisplacedSet # {}

\* The starts find_earliest_slot tries: the origin and the ends of the busy
\* periods for a free slot, max(event start, origin) for a displacing one
FreeStarts ==
    {ProbeOrigin} \cup { Max2(ProbeOrigin, ev.e) : ev \in ProbeEvents }

DisplacingStarts == { Max2(ev.s, ProbeOrigin) : ev \in ProbeEvents }

OverlappingEvents(t) ==
    { ev \in ProbeEvents : ev.s < t + ProbeDuration /\ t < ev.e }

\* Within the combined working hours and within the tolerance
WithinHoursAndScore(t) ==
    /\ StartHourOk(t, probe.attendees)
    /\ EndHourOk(t + ProbeDuration, probe.attendees)
    /\ ScoreOk(t, t + ProbeDuration, probe.attendees, probe.calendars,
               probe.max_preference_score)

FreeQualifies(t) == OverlappingEvents(t) = {} /\ WithinHoursAndScore(t)

\* Free, or overlapping only events of strictly lower priority
Qualifies(t) ==
    /\ \A ev \in OverlappingEvents(t) : ev.p > ProbePriority
    /\ WithinHoursAndScore(t)

\* C3 as stated: the returned slot is the earliest qualifying candidate (free
\* or displacing only strictly-lower-priority events), and not-found is
\* returned only when no candidate qualifies.
C3_EarliestFirst ==
    /\ probeResult.kind = "slot" =>
           \A t \in FreeStarts \cup DisplacingStarts :
               t < probeResult.s => ~Qualifies(t)
    /\ probeResult.kind = "none" =>
           \A t \in FreeStarts \cup DisplacingStarts : ~Qualifies(t)

\* C3, amended: a free result is the earliest free candidate that qualifies;
\* a displacing result is returned only when no free candidate qualifies and
\* is then the earliest displacing candidate that qualifies; not-found is
\* returned only when no candidate of either kind qualifies.
C3_FreeFirstThenDisplacing ==
    /\ (probeResult.kind = "slot" /\ probeResult.displaced = <<>>) =>
           /\ probeResult.s \in FreeStarts
           /\ FreeQualifies(probeResult.s)
           /\ \A t \in FreeStarts : t < probeResult.s => ~FreeQualifies(t)
    /\ (probeResult.kind = "slot" /\ probeResult.displaced # <<>>) =>
           /\ \A t \in FreeStarts : ~FreeQualifies(t)
           /\ probeResult.s \in DisplacingStarts
           /\ Qualifies(probeResult.s)
           /\ \A t \in DisplacingStarts :
                  t < probeResult.s => ~Qualifies(t)
    /\ probeResult.kind = "none" =>
           /\ \A t \in FreeStarts : ~FreeQualifies(t)
           /\ \A t \in DisplacingStarts : ~Qualifies(t)

\* A free slot is returned although an earlier start qualifies by displacing
\* lower-priority events
C3_Witness ==
    /\ probeResult.kind = "slot"
    /\ probeResult.displaced = <<>>
    /\ \E t \in DisplacingStarts : t < probeResult.s /\ Qualifies(t)

\* C10: find_earliest_slot ends with a validation error, and returns no slot,
\* whenever attendees is empty, the duration is zero or less, or the priority
\* is not an integer in 1..4.
C10_InvalidArgumentsRaise ==
    ( /\ probeResult # Pending
      /\ \/ probe.attendees = <<>>
         \/ (probe.duration_minutes.tag = "int"
             /\ probe.duration_minutes.v <= 0)
         \/ probe.new_meeting_priority.tag # "int"
         \/ probe.new_meeting_priority.v \notin 1..4 )
    => probeResult = Raised

\* A call with attendees and a valid priority is refused for its duration
C10_Witness ==
    /\ probeResult = Raised
    /\ probe.attendees # <<>>
    /\ probe.duration_minutes = IntVal(0)
    /\ probe.new_meeting_priority = IntVal(2)
    /\ probe.search_start_time.tag = "int"

\* ------------------------------------------------------------------------
\* Inputs of the booking orchestrator
\* ------------------------------------------------------------------------
KeyLists == { <<>>, <<"user1">>, <<"user1", "user2", "user3">> }

Summaries == <<"Standup", "Client Call", "Design Review", "Lunch">>

\* Intervals of the raw events, as the start in minutes, the end in minutes
\* and the seconds of the end: [09:00,10:00), [10:00,11:00), [10:15,17:15),
\* [09:00,18:15), [09:00:00,09:30:30)
RawIntervals ==
    << <<540, 600, 0>>, <<600, 660, 0>>, <<615, 1035, 0>>, <<540, 1095, 0>>,
       <<540, 570, 30>> >>

\* Who holds a raw event in the input lists and who attends it
RawShapes ==
    << [holder |-> "user1", attendees |-> <<"user1">>],
       [holder |-> "user1", attendees |-> <<"user1", "user2">>],
       [holder |-> "user2", attendees |-> <<"user1", "user2">>] >>

RawPoolSize == Len(RawIntervals) * 4 * Len(RawShapes)

\* The k-th raw event of the pool and the user whose input list holds it:
\* every interval with every priority 1..4 in every shape
RawEntry(k) ==
    LET shape == RawShapes[((k - 1) % Len(RawShapes)) + 1]
        prio == (((k - 1) \div Len(RawShapes)) % 4) + 1
        iv == RawIntervals[((k - 1) \div (4 * Len(RawShapes))) + 1]
    IN  [holder |-> shape.holder,
         raw |-> RawEvent(IntVal(timedelta(iv[1])),
                          IntVal(timedelta(iv[2]) + iv[3]),
                          ListVal(shape.attendees),
                          TextVal(Summaries[prio]), IntVal(prio))]

RECURSIVE RawLists(_)
RawLists(n) ==
    IF n = 0 THEN { <<>> }
    ELSE LET shorter == RawLists(n - 1)
         IN  shorter \cup
             { Append(q, k) : q \in { r \in shorter : Len(r) = n - 1 },
                              k \in 1..RawPoolSize }

HeldBy(entries, u) ==
    LET mine == SelectSeq(entries, LAMBDA k : RawEntry(k).holder = u)
    IN  [i \in 1..Len(mine) |-> RawEntry(mine[i]).raw]

UserCalendarsFrom(keys, entries) ==
    [keys |-> keys,
     val |-> [u \in {keys[i] : i \in 1..Len(keys)} |-> HeldBy(entries, u)]]

HoldersAreKeys(keys, entries) ==
    \A i \in 1..Len(entries) :
        \E j \in 1..Len(keys) : keys[j] = RawEntry(entries[i]).holder

InputCalendars ==
    { UserCalendarsFrom(keys, q) :
        <<keys, q>> \in { kq \in KeyLists \X RawLists(MaxRawEvents) :
                            /\ Decreasing(kq[2])
                            /\ HoldersAreKeys(kq[1], kq[2]) } }

Request(duration, start, priority, subject) ==
    [duration |-> duration, start |-> start, priority |-> priority,
     subject |-> subject]

\* Requests with every field present and valid: 60 minutes from 09:00 or
\* 22:30 at any priority and, at priority 2, 60 minutes from 08:00,
\* 70 minutes from 17:00 and 15 minutes from 22:30
WellFormedRequests ==
    { Request(IntVal(60), IntVal(timedelta(start)), IntVal(p),
              TextVal("Sync")) :
        start \in {540, 1350}, p \in 1..4 }
    \cup { Request(IntVal(60), IntVal(timedelta(480)), IntVal(2),
                   TextVal("Sync")),
           Request(IntVal(70), IntVal(timedelta(1020)), IntVal(2),
                   TextVal("Sync")),
           Request(IntVal(15), IntVal(timedelta(1350)), IntVal(2),
                   TextVal("Sync")) }

\* The request (60 minutes, 09:00, priority 2) with one field missing or
\* invalid
FaultyRequests ==
    { Request(d, IntVal(timedelta(540)), IntVal(2), TextVal("Sync")) :
        d \in {IntVal(0), StrVal, Absent} }
    \cup { Request(IntVal(60), st, IntVal(2), TextVal("Sync")) :
             st \in {StrVal, Absent} }
    \cup { Request(IntVal(60), IntVal(timedelta(540)), p, TextVal("Sync")) :
             p \in {IntVal(0), IntVal(5), StrVal, Absent} }
    \cup { Request(IntVal(60), IntVal(timedelta(540)), IntVal(2), Absent) }

InputRequests == WellFormedRequests \cup FaultyRequests \cup { NoRequest }

\* ------------------------------------------------------------------------
\* Booking orchestrator: schedule_meeting_from_request, step by step
\* ------------------------------------------------------------------------
Init ==
    /\ request \in InputRequests
    /\ user_calendars \in InputCalendars
    /\ pc = "Validating"
    /\ OrchestratorIdle
    /\ probe = NoProbe
    /\ probeResult = Pending

\* The validation block and the parsing of the calendars
ValidateRequest ==
    /\ pc = "Validating"
    /\ IF \/ RequestRejected(user_calendars, request)
          \/ ParseRaises(Flatten(1, user_calendars))
       THEN /\ response' = ReturnedNone
            /\ pc' = "Failed"
            /\ UNCHANGED <<attempt, parsed_calendars>>
       ELSE /\ parsed_calendars' = ParsedCalendars(user_calendars)
            /\ attempt' = 1
            /\ pc' = "Searching"
            /\ UNCHANGED response
    /\ UNCHANGED <<request, user_calendars, calls, booking,
                   updated_calendars, attendees_map, stack, outcomes,
                   probe, probeResult>>

Plan == AttemptPlan(user_calendars.keys, DurationOf(request), request.start.v)

CallRecord(strategy, attendees, duration, priority, origin, tolerance, ret) ==
    [strategy |-> strategy, attendees |-> attendees, duration |-> duration,
     priority |-> priority, origin |-> origin, tolerance |-> tolerance,
     ret |-> ret]

\* The primary search or the next fallback. A slot that is found is handed
\* to _handle_successful_booking, whose first statement reads
\* meeting_request['Subject']: without that key it raises KeyError, which the
\* orchestrator catches and answers with None.
SearchAttempt ==
    /\ pc = "Searching"
    /\ LET a == Plan[attempt]
           ret == find_earliest_slot(parsed_calendars.val, a.attendees,
                      a.duration, PriorityOf(request), IntVal(a.origin),
                      a.tolerance, 0)
       IN  /\ calls' = Append(calls,
                   CallRecord(a.strategy, a.attendees, a.duration,
                              PriorityOf(request), a.origin, a.tolerance,
                              ret))
           /\ CASE ret.kind = "slot" ->
                    /\ booking' = [slot |-> ret,
                                   fallback_used |->
                                       IF a.strategy = "primary" THEN "None"
                                       ELSE a.strategy,
                                   attendees |-> a.attendees]
                    /\ IF request.subject.tag = "absent"
                       THEN /\ response' = ReturnedNone
                            /\ pc' = "Failed"
                       ELSE /\ pc' = "Scheduled"
                            /\ UNCHANGED response
                    /\ UNCHANGED attempt
                [] ret.kind = "error" ->
                    /\ response' = ReturnedNone
                    /\ pc' = "Failed"
                    /\ UNCHANGED <<attempt, booking>>
                [] OTHER ->
                    IF attempt < Len(Plan)
                    THEN /\ attempt' = attempt + 1
                         /\ UNCHANGED <<pc, booking, response>>
                    ELSE /\ response' = ReturnedFailure
                         /\ pc' = "Failed"
                         /\ UNCHANGED <<attempt, booking>>
           /\ parsed_calendars' =
                   [parsed_calendars EXCEPT !.val =
                       CalendarsAfterSearch(@, a.attendees)]
    /\ UNCHANGED <<request, user_calendars, updated_calendars,
                   attendees_map, stack, outcomes, probe, probeResult>>

\* _handle_successful_booking, after the subject has been read, up to the
\* call of the resolver
HandleBooking ==
    /\ pc = "Scheduled"
    /\ LET slot == booking.slot
           new_tuple == Event(slot.s, slot.e, PriorityOf(request).v,
                              request.subject.v)
       IN  IF slot.displaced = <<>>
           THEN /\ response' = ReturnedSuccess(<<NewMeeting(request, slot)>>,
                                               booking.fallback_used, FALSE)
                /\ pc' = "Done"
                /\ UNCHANGED <<updated_calendars, attendees_map, stack,
                               parsed_calendars>>
           ELSE /\ updated_calendars' =
                        WorkingCopy(parsed_calendars.val, slot.displaced,
                                    new_tuple)
                /\ parsed_calendars' =
                        [parsed_calendars EXCEPT !.val =
                            SeenByCaller(@, updated_calendars',
                                         WorkingCopyShares(@))]
                /\ attendees_map' =
                        [t \in {slot.displaced[i].t :
                                  i \in 1..Len(slot.displaced)} |->
                            booking.attendees]
                /\ stack' = <<Frame(slot.displaced, search_start(slot.e))>>
                /\ pc' = "Resolving"
                /\ UNCHANGED response
    /\ UNCHANGED <<request, user_calendars, attempt, calls, booking,
                   outcomes, probe, probeResult>>

\* One iteration of the loop of reschedule_meetings_recursively
ResolveStep ==
    /\ pc = "Resolving"
    /\ stack # <<>>
    /\ stack[Len(stack)].idx <= Len(stack[Len(stack)].list)
    /\ LET top == stack[Len(stack)]
           meeting == top.list[top.idx]
           meeting_attendees ==
               MeetingAttendees(attendees_map, meeting.t,
                                parsed_calendars.keys)
           ret == find_earliest_slot(updated_calendars, meeting_attendees,
                      IntVal(original_duration(meeting.s, meeting.e)),
                      IntVal(meeting.p), IntVal(top.floor), 150, 0)
           searched == CalendarsAfterSearch(updated_calendars,
                                            meeting_attendees)
           advanced == [stack EXCEPT ![Len(stack)].idx = @ + 1]
       IN  /\ calls' = Append(calls,
                   CallRecord("reschedule", meeting_attendees,
                              IntVal(original_duration(meeting.s, meeting.e)),
                              IntVal(meeting.p), top.floor, 150, ret))
           /\ parsed_calendars' =
                   [parsed_calendars EXCEPT !.val =
                       SeenByCaller(@, updated_calendars',
                                    WorkingCopyShares(@))]
           /\ CASE ret.kind = "slot" ->
                    /\ updated_calendars' =
                            AppendRelocated(searched, meeting_attendees,
                                Event(ret.s, ret.e, meeting.p, meeting.t))
                    /\ outcomes' =
                            Append(outcomes, Relocated(meeting, ret.s, ret.e))
                    /\ stack' = PopFinished(
                            IF ret.displaced # <<>>
                            THEN Append(advanced,
                                        Frame(ret.displaced,
                                              FurtherFloor(top.floor, ret.e)))
                            ELSE advanced)
                    /\ UNCHANGED <<pc, response>>
                [] ret.kind = "error" ->
                    /\ response' = ReturnedSuccess(
                            <<NewMeeting(request, booking.slot)>>,
                            booking.fallback_used, TRUE)
                    /\ pc' = "Done"
                    /\ updated_calendars' = searched
                    /\ UNCHANGED <<outcomes, stack>>
                [] OTHER ->
                    /\ outcomes' = Append(outcomes, NeedsManual(meeting))
                    /\ stack' = PopFinished(advanced)
                    /\ updated_calendars' = searched
                    /\ UNCHANGED <<pc, response>>
    /\ UNCHANGED <<request, user_calendars, attempt, booking,
                   attendees_map, probe, probeResult>>

\* requirewna returns and the result dict is assembled
FinishResolving ==
    /\ pc = "Resolving"
    /\ stack = <<>>
    /\ response' = ReturnedSuccess(
            <<NewMeeting(request, booking.slot)>> \o outcomes,
            booking.fallback_used, TRUE)
    /\ pc' = "Done"
    /\ UNCHANGED <<request, user_calendars, attempt, parsed_calendars, calls,
                   booking, updated_calendars, attendees_map, stack,
                   outcomes, probe, probeResult>>

Next ==
    \/ ValidateRequest
    \/ SearchAttempt
    \/ HandleBooking
    \/ ResolveStep
    \/ FinishResolving

Spec == Init /\ [][Next]_vars

\* ------------------------------------------------------------------------
\* Properties of the booking orchestrator (under Spec)
\* ------------------------------------------------------------------------
\* The searches the orchestrator made itself, without the resolver's
SearchCalls == SelectSeq(calls, LAMBDA c : c.strategy # "reschedule")

RequestedDuration == DurationOf(request).v

Terminal == pc \in {"Done", "Failed"}

\* C4: every slot find_earliest_slot returns has end - start equal to the
\* duration passed to that call; a booking made through shorter_duration has
\* length int(0.75 * requested), at least 15 and less than requested, and
\* every other booking has exactly the requested length.
C4_SlotLengthIsDuration ==
    /\ \A i \in 1..Len(calls) :
           calls[i].ret.kind = "slot" =>
               calls[i].ret.e - calls[i].ret.s
                   = timedelta(calls[i].duration.v)
    /\ response.success =>
           LET booked == response.meetings[1]
               length == (booked.end - booked.start) \div 60
           IN  /\ booked.end - booked.start = timedelta(length)
               /\ IF response.fallback_used = "shorter_duration"
                  THEN /\ length * 4 <= RequestedDuration * 3
                       /\ RequestedDuration * 3 < (length + 1) * 4
                       /\ length >= 15
                       /\ length < RequestedDuration
                  ELSE length = RequestedDuration

\* A 70-minute request is booked for 52 minutes through shorter_duration
C4_Witness ==
    /\ response.success
    /\ response.fallback_used = "shorter_duration"
    /\ RequestedDuration = 70
    /\ response.meetings[1].end - response.meetings[1].start = timedelta(52)

\* The phases still ahead of the run
PhasesLeft ==
    CASE pc = "Validating" -> 4
      [] pc = "Searching" -> 3
      [] pc = "Scheduled" -> 2
      [] pc = "Resolving" -> 1
      [] OTHER -> 0

\* The searches of the plan that have not been made yet
AttemptsLeft == IF pc = "Searching" THEN Len(Plan) - attempt + 1 ELSE 0

\* The meetings the k-th resolver frame has still to relocate
MeetingsLeft(k) ==
    IF k <= Len(stack) THEN Len(stack[k].list) - stack[k].idx + 1 ELSE 0

\* What is left to do, most significant first
Variant ==
    <<PhasesLeft, AttemptsLeft, MeetingsLeft(1), MeetingsLeft(2),
      MeetingsLeft(3)>>

LexLess(a, b) ==
    \E i \in 1..Len(a) : a[i] < b[i] /\ \A j \in 1..(i - 1) : a[j] = b[j]

\* The run is over or its next step can be taken
CanStep ==
    \/ Terminal
    \/ pc = "Validating"
    \/ pc = "Searching" /\ attempt \in 1..Len(Plan)
    \/ pc = "Scheduled"
    \/ /\ pc = "Resolving"
       /\ \/ stack = <<>>
          \/ stack[Len(stack)].idx <= Len(stack[Len(stack)].list)

\* C5: every run follows Validating -> Searching -> (Scheduled -> Done, or
\* Scheduled -> Resolving -> Done when there are displacements) or Failed,
\* and always ends in Done or Failed, cascading relocations included: every
\* step follows the state machine, strictly decreases a well-founded
\* measure of the work left (at most three resolver frames deep) and leaves
\* the run either over or able to take its next step.
C5_StateMachineTerminates ==
    [][ /\ \/ pc' = pc /\ pc \in {"Searching", "Resolving"}
           \/ pc = "Validating" /\ pc' \in {"Searching", "Failed"}
           \/ pc = "Searching" /\ pc' \in {"Scheduled", "Failed"}
           \/ /\ pc = "Scheduled"
              /\ pc' = IF booking.slot.displaced = <<>>
                       THEN "Done" ELSE "Resolving"
           \/ pc = "Resolving" /\ pc' = "Done"
        /\ LexLess(Variant', Variant)
        /\ \A i \in 1..Len(Variant') : Variant'[i] >= 0
        /\ Len(stack') <= 3
        /\ CanStep' ]_vars

\* A run ends in Done after a relocation that displaced a further meeting
C5_Witness ==
    /\ pc = "Done"
    /\ \E i \in 1..Len(calls) :
           /\ calls[i].strategy = "reschedule"
           /\ calls[i].ret.kind = "slot"
           /\ calls[i].ret.displaced # <<>>

\* Position of a search in the fixed order: primary, shorter_duration,
\* majority_attendees, time_shift +30, -30, +60, -60, relaxed_preferences
StrategyRank(c) ==
    CASE c.strategy = "primary" -> 0
      [] c.strategy = "shorter_duration" -> 1
      [] c.strategy = "majority_attendees" -> 2
      [] /\ c.strategy = "time_shift"
         /\ c.origin - request.start.v = timedelta(30) -> 3
      [] /\ c.strategy = "time_shift"
         /\ c.origin - request.start.v = timedelta(-30) -> 4
      [] /\ c.strategy = "time_shift"
         /\ c.origin - request.start.v = timedelta(60) -> 5
      [] /\ c.strategy = "time_shift"
         /\ c.origin - request.start.v = timedelta(-60) -> 6
      [] c.strategy = "relaxed_preferences" -> 7
      [] OTHER -> 8

\* shorter_duration needs 75% of the duration to be 15 minutes or more,
\* majority_attendees more than two attendees
StrategyApplies(rank) ==
    CASE rank = 1 -> (RequestedDuration * 3) \div 4 >= 15
      [] rank = 2 -> Len(user_calendars.keys) > 2
      [] OTHER -> TRUE

\* The arguments each strategy changes, and only those
StrategyArguments(c) ==
    /\ c.tolerance = IF StrategyRank(c) = 7 THEN 200 ELSE 100
    /\ c.duration = IF StrategyRank(c) = 1
                    THEN IntVal((RequestedDuration * 3) \div 4)
                    ELSE DurationOf(request)
    /\ c.attendees = IF StrategyRank(c) = 2
                     THEN SubSeq(user_calendars.keys, 1,
                                 (Len(user_calendars.keys) \div 2) + 1)
                     ELSE user_calendars.keys
    /\ StrategyRank(c) \notin 3..6 => c.origin = request.start.v

\* C6: after a failed primary search the fallbacks are tried in the order
\* shorter_duration, majority_attendees, time_shift (+30, -30, +60, -60),
\* relaxed_preferences (tolerance 200); the search stops at the first
\* success, which is the fallback reported, and nothing is tried after it.
C6_FallbackOrder ==
    LET sc == SearchCalls
        n == Len(sc)
    IN  /\ \A i \in 1..n : StrategyRank(sc[i]) <= 7 /\ StrategyArguments(sc[i])
        /\ n >= 1 => StrategyRank(sc[1]) = 0
        /\ \A i \in 1..(n - 1) :
               /\ sc[i].ret.kind # "slot"
               /\ StrategyRank(sc[i]) < StrategyRank(sc[i + 1])
               /\ \A k \in (StrategyRank(sc[i]) + 1)
                             ..(StrategyRank(sc[i + 1]) - 1) :
                      ~StrategyApplies(k)
        /\ response.success =>
               /\ sc[n].ret.kind = "slot"
               /\ response.fallback_used =
                      IF StrategyRank(sc[n]) = 0 THEN "None"
                      ELSE sc[n].strategy
        /\ response = ReturnedFailure =>
               StrategyRank(sc[n]) = 7 /\ sc[n].ret.kind = "none"

\* With three attendees every earlier search failed and relaxed_preferences,
\* the eighth search, made the booking
C6_Witness ==
    /\ response.success
    /\ response.fallback_used = "relaxed_preferences"
    /\ Len(SearchCalls) = 8

\* C7 as stated: every call of schedule_meeting_from_request, for a valid or
\* an invalid request, ends with a result that carries a success flag.
C7_AlwaysStructuredOutcome == Terminal => response.kind = "dict"

\* The request shape is invalid: a duration that is not a positive number, a
\* start time that cannot be parsed, a priority outside 1..4, or no attendee
InvalidShape ==
    \/ request.duration.tag = "str"
    \/ request.duration.tag = "int" /\ request.duration.v <= 0
    \/ request.start.tag = "str"
    \/ request.priority.tag = "str"
    \/ request.priority.tag = "int" /\ request.priority.v \notin 1..4
    \/ user_calendars.keys = <<>>

\* C8 as stated: for a request of invalid shape find_earliest_slot is never
\* invoked and the call ends at once in failure.
C8_InvalidRequestNeverSearched ==
    InvalidShape => calls = <<>> /\ pc \in {"Validating", "Failed"}

\* C9 as stated: a request that omits its priority or its duration is
\* reported as a validation failure and is never run with a substituted
\* value.
C9_OmittedFieldsRejected ==
    (request.priority.tag = "absent" \/ request.duration.tag = "absent")
        => calls = <<>> /\ ~response.success

\* Every list of calendars before is the beginning of its list after
ListsOnlyGrow(before, after) ==
    /\ DOMAIN after = DOMAIN before
    /\ \A u \in DOMAIN before :
           /\ Len(after[u]) >= Len(before[u])
           /\ SubSeq(after[u], 1, Len(before[u])) = before[u]

InputMeetings ==
    UNION { { user_calendars.val[u][i] : i \in 1..Len(user_calendars.val[u]) } :
            u \in DOMAIN user_calendars.val }

\* The input meetings that are normalized to the tuple of an outcome
MeetingsBehind(o) ==
    { m \in InputMeetings :
        /\ ~RecordSkipped(m)
        /\ ParsedTuple(m) = Event(o.original_start, o.original_end,
                                  o.priority, o.subject) }

\* The manual-intervention outcomes recorded for the meeting of outcome o
ManualOutcomesLike(o) ==
    { i \in 1..Len(outcomes) :
        /\ outcomes[i].kind = "manual"
        /\ outcomes[i].subject = o.subject
        /\ outcomes[i].priority = o.priority
        /\ outcomes[i].original_start = o.original_start
        /\ outcomes[i].original_end = o.original_end }

\* C12 as stated: a displaced meeting that cannot be relocated is recorded as
\* one needs-manual-intervention outcome that keeps its original start and
\* end and is not searched for again, and the booking still succeeds with
\* the new meeting's slot whatever the relocation outcomes are.
C12_ManualOutcomeOnceAndBooked ==
    /\ \A i \in 1..Len(outcomes) :
           outcomes[i].kind = "manual" =>
               /\ outcomes[i].start = outcomes[i].original_start
               /\ outcomes[i].end = outcomes[i].original_end
               /\ Cardinality(ManualOutcomesLike(outcomes[i]))
                      <= Cardinality(MeetingsBehind(outcomes[i]))
    /\ (pc = "Done" /\ outcomes # <<>>) =>
           /\ response.success
           /\ response.meetings[1] = NewMeeting(request, booking.slot)

\* Every search of the plan has been made and none has found a slot
AllSearchesFailed ==
    /\ pc # "Validating"
    /\ Len(SearchCalls) = Len(Plan)
    /\ \A i \in 1..Len(SearchCalls) : SearchCalls[i].ret.kind = "none"

\* C13: when neither the primary search nor any fallback finds a slot, the
\* orchestrator returns a failure outcome with success = false, a reason and
\* an empty list of meetings, and in that case no meeting is booked and none
\* is relocated; the failure outcome is returned in that case only.
C13_NoSlotIsReturnedFailure ==
    /\ AllSearchesFailed =>
           /\ pc = "Failed"
           /\ response.kind = "dict"
           /\ ~response.success
           /\ response.error # ""
           /\ response.meetings = <<>>
           /\ booking = NoBooking
           /\ outcomes = <<>>
           /\ updated_calendars = NoCalendars
           /\ \A i \in 1..Len(calls) : calls[i].strategy # "reschedule"
    /\ (response.kind = "dict" /\ ~response.success) => AllSearchesFailed

\* With three attendees and calendars that hold events, all eight searches
\* fail
C13_Witness ==
    /\ response = ReturnedFailure
    /\ Len(SearchCalls) = 8
    /\ \E u \in DOMAIN parsed_calendars.val : parsed_calendars.val[u] # <<>>

\* The searches the resolver made; the i-th of them produced outcomes[i]
RescheduleCalls == SelectSeq(calls, LAMBDA c : c.strategy = "reschedule")

\* The meeting the i-th search of the resolver was made for
SearchedMeeting(i) ==
    Event(outcomes[i].original_start, outcomes[i].original_end,
          outcomes[i].priority, outcomes[i].subject)

InList(ev, list) == \E k \in 1..Len(list) : list[k] = ev

\* The end of the meeting relocated last before the j-th search of the
\* resolver, or the end of the new meeting when none has been relocated
LastRelocatedEnd(j) ==
    LET earlier == { i \in 1..(j - 1) : RescheduleCalls[i].ret.kind = "slot" }
    IN  IF earlier = {} THEN booking.slot.e
        ELSE RescheduleCalls[CHOOSE i \in earlier :
                                \A k \in earlier : k <= i].ret.e

\* C14 as stated: each displaced event is searched from a floor equal to the
\* end of the most recently relocated meeting, or to the new meeting's end
\* if none has been relocated yet.
C14_FloorFollowsLastRelocation ==
    \A j \in 1..Len(outcomes) :
        RescheduleCalls[j].origin = LastRelocatedEnd(j)

\* C14, amended: an event displaced by the new meeting is searched from the
\* new meeting's end, whatever has been relocated before it; an event
\* displaced by a relocated meeting is searched from the new end of that
\* relocated meeting.
C14_FloorIsDisplacersEnd ==
    \A j \in 1..Len(outcomes) :
        \/ /\ InList(SearchedMeeting(j), booking.slot.displaced)
           /\ RescheduleCalls[j].origin = booking.slot.e
        \/ \E i \in 1..(j - 1) :
               /\ RescheduleCalls[i].ret.kind = "slot"
               /\ InList(SearchedMeeting(j), RescheduleCalls[i].ret.displaced)
               /\ RescheduleCalls[j].origin = RescheduleCalls[i].ret.e

\* A second event displaced by the new meeting is searched from the new
\* meeting's end after the first one has been relocated, and an event
\* displaced by a relocation is searched from that relocation's end
C14_Witness ==
    /\ pc = "Done"
    /\ \E j \in 1..Len(outcomes) :
           /\ InList(SearchedMeeting(j), booking.slot.displaced)
           /\ RescheduleCalls[j].origin = booking.slot.e
           /\ LastRelocatedEnd(j) # booking.slot.e
    /\ \E j \in 1..Len(outcomes) :
           RescheduleCalls[j].origin # booking.slot.e

\* Some list of the working copy holds the tuple
OnWorkingCalendars(ev) ==
    \E u \in DOMAIN updated_calendars : InList(ev, updated_calendars[u])

\* C15 as stated: after the resolver has relocated a displaced event,
\* whether the new meeting or a cascaded relocation displaced it, the
\* working calendars no longer hold its tuple at the old time and hold it at
\* the new time.
C15_MovedNotCopied ==
    \A j \in 1..Len(outcomes) :
        outcomes[j].kind = "relocated" =>
            /\ ~OnWorkingCalendars(SearchedMeeting(j))
            /\ OnWorkingCalendars(Event(outcomes[j].start, outcomes[j].end,
                                        outcomes[j].priority,
                                        outcomes[j].subject))

\* ------------------------------------------------------------------------
\* Inputs of the preference scorer
\* ------------------------------------------------------------------------
\* Intervals of the events on the scored calendars: 09:00-10:00,
\* 10:00-11:00, 11:30-12:30, 13:00-14:00, 15:00-16:00 and, on the next day,
\* 09:00-10:00
ScoreIntervals ==
    << <<540, 600>>, <<600, 660>>, <<690, 750>>, <<780, 840>>, <<900, 960>>,
       <<1980, 2040>> >>

ScoreEvent(k) ==
    Event(timedelta(ScoreIntervals[k][1]), timedelta(ScoreIntervals[k][2]),
          4, "M")

\* Lists of at most n intervals, written by index
RECURSIVE IndexLists(_)
IndexLists(n) ==
    IF n = 0 THEN { <<>> }
    ELSE LET shorter == IndexLists(n - 1)
         IN  shorter \cup
             { Append(q, k) : q \in { r \in shorter : Len(r) = n - 1 },
                              k \in 1..Len(ScoreIntervals) }

EventList(q) == [i \in 1..Len(q) |-> ScoreEvent(q[i])]

\* user2, whose daily limit is 4, holds up to MaxScoreEvents events and
\* user1 at most one
ScoreCalendars ==
    { [user1 |-> EventList(q1), user2 |-> EventList(q2)] :
        q1 \in IndexLists(1),
        q2 \in { r \in IndexLists(MaxScoreEvents) : Decreasing(r) } }

\* user9 has no entry in the registry and no calendar
ScoreAttendees ==
    { <<"user2">>, <<"user1", "user2">>, <<"user3", "user1">>,
      <<"user9", "user2">> }

\* The scored slots: 10:15-11:15, 11:00-12:00, 08:00-09:00, 17:00-18:10 and,
\* on the next day, 10:30-11:30
ScoreSlots ==
    { <<615, 675>>, <<660, 720>>, <<480, 540>>, <<1020, 1090>>,
      <<2070, 2130>> }

\* The event that is added to one participant's calendar
AddedEvents ==
    [owner : {"user1", "user2"},
     ev : { ScoreEvent(k) : k \in 1..Len(ScoreIntervals) }]

\* calendars with one more busy event at the end of its owner's list
CalendarsWith(calendars, added) ==
    [calendars EXCEPT ![added.owner] = Append(@, added.ev)]

ScoreInit ==
    /\ \E c \in ScoreCalendars, a \in ScoreAttendees, slot \in ScoreSlots,
          x \in AddedEvents :
           probe = [calendars |-> c, attendees |-> a,
                    start_time |-> timedelta(slot[1]),
                    end_time |-> timedelta(slot[2]), added |-> x]
    /\ probeResult = Pending
    /\ request = NoRequest
    /\ user_calendars = EmptyDict
    /\ pc = "Idle"
    /\ OrchestratorIdle

\* calculate_preference_score on the calendars, and again once the event
\* has been added
CallCalculatePreferenceScore ==
    /\ pc = "Idle"
    /\ probeResult = Pending
    /\ probeResult' =
           [kind |-> "score",
            score |-> calculate_preference_score(probe.start_time,
                          probe.end_time, probe.attendees, probe.calendars),
            score_with_added |->
                calculate_preference_score(probe.start_time, probe.end_time,
                    probe.attendees,
                    CalendarsWith(probe.calendars, probe.added))]
    /\ UNCHANGED <<probe, orchestratorVars>>

ScoreNext == CallCalculatePreferenceScore

SpecScore == ScoreInit /\ [][ScoreNext]_vars

\* ------------------------------------------------------------------------
\* Properties of the preference scorer (under SpecScore)
\* ------------------------------------------------------------------------
\* The events of the attendees on a calendar mapping
AttendeeEvents(calendars) ==
    UNION { { CalendarOf(calendars, probe.attendees[i])[j] :
                j \in 1..Len(CalendarOf(calendars, probe.attendees[i])) } :
            i \in 1..Len(probe.attendees) }

\* The scored slot overlaps no event of the attendees
SlotFree(calendars) ==
    \A ev \in AttendeeEvents(calendars) :
        ~(ev.s < probe.end_time /\ probe.start_time < ev.e)

\* C16: for a fixed candidate slot and attendee set, adding a busy event to
\* a calendar never decreases calculate_preference_score, and so a candidate
\* that was infeasible (it overlaps an event or scores above the tolerance)
\* is not feasible afterwards, whatever the tolerance is.
C16_ScoreMonotone ==
    probeResult.kind = "score" =>
        /\ probeResult.score_with_added >= probeResult.score
        /\ \A tolerance \in {0, 20, 50, 100, 150, 200} :
               ( /\ SlotFree(CalendarsWith(probe.calendars, probe.added))
                 /\ probeResult.score_with_added <= tolerance )
               => ( /\ SlotFree(probe.calendars)
                    /\ probeResult.score <= tolerance )

\* The added event takes an attendee over the daily limit and the score
\* grows by the penalty of 30
C16_Witness ==
    /\ probeResult.kind = "score"
    /\ probeResult.score_with_added = probeResult.score + 30
    /\ Len(probe.calendars[probe.added.owner]) >= 3

\* The penalties of one attendee as the claim states them
StatedPenalty(user_id) ==
    LET pref == IF user_id \in {"user1", "user2", "user3"}
                THEN PARTICIPANT_PREFERENCES[user_id]
                ELSE default_preferences
        events == IF user_id \in DOMAIN probe.calendars
                  THEN { probe.calendars[user_id][i] :
                           i \in 1..Len(probe.calendars[user_id]) }
                  ELSE {}
        positions == IF user_id \in DOMAIN probe.calendars
                     THEN 1..Len(probe.calendars[user_id]) ELSE {}
        outside == \/ (probe.start_time \div 3600) % 24 < pref.start
                   \/ (probe.end_time \div 3600) % 24 > pref.end
        on_the_day ==
            { i \in positions :
                probe.calendars[user_id][i].s \div 86400
                    = probe.start_time \div 86400 }
        too_close ==
            \E ev \in events :
                \/ ( /\ ev.e - probe.start_time < 60 * pref.buffer_minutes
                     /\ probe.start_time - ev.e < 60 * pref.buffer_minutes )
                \/ ( /\ ev.s - probe.end_time < 60 * pref.buffer_minutes
                     /\ probe.end_time - ev.s < 60 * pref.buffer_minutes )
    IN  (IF outside THEN 50 ELSE 0)
        + (IF Cardinality(on_the_day) >= pref.max_meetings_per_day
           THEN 30 ELSE 0)
        + (IF pref.avoid_back_to_back /\ too_close THEN 20 ELSE 0)

RECURSIVE StatedScoreFrom(_)
StatedScoreFrom(i) ==
    IF i > Len(probe.attendees) THEN 0
    ELSE StatedPenalty(probe.attendees[i]) + StatedScoreFrom(i + 1)

\* C17: calculate_preference_score is the sum over the attendees of 50 if
\* the slot's start hour is before the preferred start hour or its end hour
\* after the preferred end hour, plus 30 if the attendee has at least
\* maxMeetingsPerDay events starting on the slot's start date, plus 20, at
\* most once per attendee, if avoidBackToBack holds and some event ends less
\* than bufferMinutes from the slot start or starts less than bufferMinutes
\* from the slot end.
C17_ScoreIsSumOfPenalties ==
    probeResult.kind = "score" => probeResult.score = StatedScoreFrom(1)

\* user2 (buffer 30) has an event that ends at 10:00 and one that starts at
\* 11:30; the slot 10:15-11:15 is within the buffer of both and scores 20
C17_Witness ==
    /\ probeResult.kind = "score"
    /\ probe.attendees = <<"user2">>
    /\ probe.start_time = timedelta(615)
    /\ probe.end_time = timedelta(675)
    /\ \E i, j \in 1..Len(probe.calendars["user2"]) :
           /\ probe.calendars["user2"][i].e = timedelta(600)
           /\ probe.calendars["user2"][j].s = timedelta(690)
    /\ probeResult.score = 20

\* ------------------------------------------------------------------------
\* Properties of the normalization inside the orchestrator (under Spec)
\* ------------------------------------------------------------------------
Lists(m, user_id) ==
    \E i \in 1..Len(m.Attendees.v) : m.Attendees.v[i] = user_id

\* How often a participant's normalized calendar holds a tuple
TimesOnCalendar(user_id, tuple) ==
    IF user_id \in DOMAIN parsed_calendars.val
    THEN Cardinality({ i \in 1..Len(parsed_calendars.val[user_id]) :
                         parsed_calendars.val[user_id][i] = tuple })
    ELSE 0

\* C18 as stated: for well-formed raw events each participant's normalized
\* calendar holds exactly one tuple for each raw event that lists the
\* participant and no other tuple, nothing lost and nothing duplicated, also
\* when the orchestrator normalizes the per-user input calendars of a
\* meeting shared by several participants.
C18_OneTuplePerMeeting ==
    pc \in {"Searching", "Scheduled", "Resolving", "Done"} =>
        \A user_id \in {"user1", "user2", "user3"} :
            /\ \A m \in InputMeetings :
                   TimesOnCalendar(user_id, ParsedTuple(m)) =
                       Cardinality({ n \in InputMeetings :
                                       /\ Lists(n, user_id)
                                       /\ ParsedTuple(n) = ParsedTuple(m) })
            /\ user_id \in DOMAIN parsed_calendars.val =>
                   \A i \in 1..Len(parsed_calendars.val[user_id]) :
                       \E m \in InputMeetings :
                           /\ Lists(m, user_id)
                           /\ ParsedTuple(m) =
                                  parsed_calendars.val[user_id][i]

\* ------------------------------------------------------------------------
\* Inputs of the calendar normalizer
\* ------------------------------------------------------------------------
\* Well-formed records: titles with and without keywords, with and without
\* an explicit priority, one or two attendees, an empty attendee entry
WellFormedRecords ==
    { RawEvent(At(540), At(600), ListVal(<<"user1">>),
               TextVal(title), Absent) :
        title \in {"Client Call", "Design Review",
                   "Client Call Design Review", "Standup"} }
    \cup { RawEvent(At(600), At(660), ListVal(<<"user1", "user2">>),
                    summary, priority) :
             summary \in {TextVal("Client Call"), Absent},
             priority \in {IntVal(1), IntVal(4)} }
    \cup { RawEvent(At(600), At(660), ListVal(<<"user1", "user2">>),
                    Absent, Absent),
           RawEvent(At(690), At(750), ListVal(<<"", "user2">>),
                    TextVal("Design Review"), IntVal(3)) }

\* The record (09:00-10:00, user1, 'Client Call', priority 2) with one field
\* missing or invalid, and the empty record
MalformedRecords ==
    LET base == RawEvent(At(540), At(600), ListVal(<<"user1">>),
                         TextVal("Client Call"), IntVal(2))
    IN  { [base EXCEPT !.StartTime = x] : x \in {Absent, StrVal} }
        \cup { [base EXCEPT !.EndTime = x] :
                 x \in {Absent, StrVal, At(540), At(480)} }
        \cup { [base EXCEPT !.Attendees = x] : x \in {Absent, ListVal(<<>>)} }
        \cup { [base EXCEPT !.Priority = x] :
                 x \in {IntVal(0), IntVal(5), StrVal} }
        \cup { RawEvent(Absent, Absent, Absent, Absent, Absent) }

RawRecords == WellFormedRecords \cup MalformedRecords

RECURSIVE RecordLists(_)
RecordLists(n) ==
    IF n = 0 THEN { <<>> }
    ELSE LET shorter == RecordLists(n - 1)
         IN  shorter \cup
             { Append(q, r) : q \in { x \in shorter : Len(x) = n - 1 },
                              r \in RawRecords }

ParseInit ==
    /\ \E q \in RecordLists(MaxParseEvents) : probe = [raw_events |-> q]
    /\ probeResult = Pending
    /\ request = NoRequest
    /\ user_calendars = EmptyDict
    /\ pc = "Idle"
    /\ OrchestratorIdle

\* parse_calendar_data returns its dict, or an exception leaves it
CallParseCalendarData ==
    /\ pc = "Idle"
    /\ probeResult = Pending
    /\ probeResult' =
           IF ParseRaises(probe.raw_events)
           THEN [kind |-> "raised", calendars |-> EmptyDict]
           ELSE [kind |-> "returned",
                 calendars |-> parse_calendar_data(probe.raw_events)]
    /\ UNCHANGED <<probe, orchestratorVars>>

ParseNext == CallParseCalendarData

SpecParse == ParseInit /\ [][ParseNext]_vars

\* ------------------------------------------------------------------------
\* Properties of the calendar normalizer (under SpecParse)
\* ------------------------------------------------------------------------
\* A record is malformed: start, end or attendees missing (or no attendee),
\* a start or an end that is not a time, start >= end, or a priority that is
\* not an integer in 1..4
Malformed(r) ==
    \/ r.StartTime.tag # "int"
    \/ r.EndTime.tag # "int"
    \/ r.Attendees.tag # "list"
    \/ r.Attendees.v = <<>>
    \/ r.StartTime.v >= r.EndTime.v
    \/ r.Priority.tag = "str"
    \/ r.Priority.tag = "int" /\ r.Priority.v \notin 1..4

\* The records of the batch that are not malformed, by position
SoundRecords ==
    { i \in 1..Len(probe.raw_events) : ~Malformed(probe.raw_events[i]) }

Participants == {"user1", "user2", "user3"}

ReturnedList(user_id) ==
    IF user_id \in DOMAIN probeResult.calendars.val
    THEN probeResult.calendars.val[user_id] ELSE <<>>

\* C19: parse_calendar_data never fails on a malformed record: the malformed
\* records are skipped, every other record of the batch is still output,
\* once for each of its attendees and in the order of the batch, and every
\* tuple of the result has start < end and a priority in 1..4.
C19_MalformedRecordsSkipped ==
    probeResult # Pending =>
        /\ probeResult.kind = "returned"
        /\ DOMAIN probeResult.calendars.val \subseteq Participants
        /\ \A user_id \in Participants :
               LET mine == { i \in SoundRecords :
                               Lists(probe.raw_events[i], user_id) }
                   out == ReturnedList(user_id)
               IN  /\ Len(out) = Cardinality(mine)
                   /\ \A k \in 1..Len(out) :
                          /\ out[k].s < out[k].e
                          /\ out[k].p \in 1..4
                          /\ \E i \in mine :
                                 /\ Cardinality({ j \in mine : j < i }) = k - 1
                                 /\ out[k].s = probe.raw_events[i].StartTime.v
                                 /\ out[k].e = probe.raw_events[i].EndTime.v
                                 /\ out[k].t = SummaryOf(probe.raw_events[i])

\* A record without EndTime between two well-formed records: the result
\* holds exactly the two well-formed ones
C19_Witness ==
    /\ probeResult.kind = "returned"
    /\ Len(probe.raw_events) = 3
    /\ probe.raw_events[2].EndTime = Absent
    /\ SoundRecords = {1, 3}
    /\ Len(ReturnedList("user1")) = 2

\* The priority of a record as the claim states it
StatedPriority(r) ==
    IF r.Priority.tag # "absent" THEN r.Priority.v
    ELSE IF ContainsKeyword(SummaryOf(r), "Client Call") THEN 2
    ELSE IF ContainsKeyword(SummaryOf(r), "Design Review") THEN 3
    ELSE 4

\* C20: the priority of a normalized event is the explicit Priority field
\* when it is present, whatever the title says; otherwise 2 if the title
\* contains 'Client Call', otherwise 3 if it contains 'Design Review',
\* otherwise the default 4.
C20_PriorityResolutionOrder ==
    probeResult.kind = "returned" =>
        \A user_id \in Participants :
            LET mine == { i \in SoundRecords :
                            Lists(probe.raw_events[i], user_id) }
                out == ReturnedList(user_id)
            IN  \A i \in mine :
                    LET k == Cardinality({ j \in mine : j < i }) + 1
                    IN  /\ k <= Len(out)
                        /\ out[k].p = StatedPriority(probe.raw_events[i])

\* The result holds a 'Client Call' with the explicit priority 4, a
\* 'Client Call Design Review' resolved to 2 and an untitled event at 4
C20_Witness ==
    /\ probeResult.kind = "returned"
    /\ \E k \in 1..Len(ReturnedList("user1")) :
           /\ ReturnedList("user1")[k].t = "Client Call"
           /\ ReturnedList("user1")[k].p = 4
    /\ \E k \in 1..Len(ReturnedList("user1")) :
           /\ ReturnedList("user1")[k].t = "Client Call Design Review"
           /\ ReturnedList("user1")[k].p = 2
    /\ \E k \in 1..Len(ReturnedList("user1")) :
           /\ ReturnedList("user1")[k].t = "No Title"
           /\ ReturnedList("user1")[k].p = 4

\* ------------------------------------------------------------------------
\* Further properties of the slot search engine (under SpecSearch)
\* ------------------------------------------------------------------------
AttendeeSet == { probe.attendees[i] : i \in 1..Len(probe.attendees) }

\* C21: every slot find_earliest_slot returns, free or displacing, lies in
\* the combined working-hours window at hour granularity: its start hour is
\* not before the least preferred start hour of the attendees and its end
\* hour not after their greatest preferred end hour.
C21_SlotInCombinedWindow ==
    probeResult.kind = "slot" =>
        /\ \E u \in AttendeeSet :
               Hour(probeResult.s) >= get_user_preferences(u).start
        /\ \E u \in AttendeeSet :
               Hour(probeResult.e) <= get_user_preferences(u).end

\* A search from 08:30 for user1 alone, whose day starts at 09:00, returns a
\* slot at 09:00 or later, and one such slot displaces an event
C21_Witness ==
    /\ probeResult.kind = "slot"
    /\ probe.attendees = <<"user1">>
    /\ probe.search_start_time = IntVal(timedelta(510))
    /\ probeResult.s >= timedelta(540)
    /\ probeResult.displaced # <<>>

\* The busy ranges the direct call built for its free-slot phase
ProbeMerged ==
    merged_busy_slots(all_busy_slots(probe.calendars, probe.attendees))

\* The starts and ends of the attendees' events and of the busy ranges
Breakpoints ==
    { ev.s : ev \in ProbeEvents } \cup { ev.e : ev \in ProbeEvents }
    \cup { ProbeMerged[i].s : i \in 1..Len(ProbeMerged) }
    \cup { ProbeMerged[i].e : i \in 1..Len(ProbeMerged) }

\* The busy ranges cover exactly what the events cover: between two
\* neighbouring breakpoints either both cover or neither does
SameUnion ==
    \A b \in Breakpoints :
        (\E ev \in ProbeEvents : ev.s <= b /\ b < ev.e)
            <=> (\E i \in 1..Len(ProbeMerged) :
                    ProbeMerged[i].s <= b /\ b < ProbeMerged[i].e)

\* C25 as stated: the busy ranges built for the free-slot phase are the
\* minimal merge of the attendees' events: sorted by start, pairwise
\* non-overlapping and non-adjacent (no range ends exactly where the next
\* one starts), and their union equals the union of the event intervals.
C25_BusyRangesMinimalMerge ==
    probeResult.kind \in {"slot", "none"} =>
        /\ \A i \in 1..(Len(ProbeMerged) - 1) :
               /\ ProbeMerged[i].s < ProbeMerged[i + 1].s
               /\ ProbeMerged[i].e < ProbeMerged[i + 1].s
        /\ SameUnion

\* C25, amended: the busy ranges are sorted by start, pairwise
\* non-overlapping, and their union equals the union of the event
\* intervals; events are merged into one range only when they overlap, so
\* where an event ends exactly at the start of another and no third event
\* spans that instant, one range ends and the next one starts there.
C25_BusyRangesMergeOverlapsOnly ==
    probeResult.kind \in {"slot", "none"} =>
        /\ \A i \in 1..(Len(ProbeMerged) - 1) :
               /\ ProbeMerged[i].s < ProbeMerged[i + 1].s
               /\ ProbeMerged[i].e <= ProbeMerged[i + 1].s
        /\ SameUnion
        /\ \A ev \in ProbeEvents :
               (~\E other \in ProbeEvents :
                     other.s < ev.e /\ ev.e < other.e)
               => ~\E i \in 1..Len(ProbeMerged) :
                      ProbeMerged[i].s < ev.e /\ ev.e < ProbeMerged[i].e

\* The attendees hold an event that ends at 10:00 and one that starts at
\* 10:00: the busy ranges are [09:00, 10:00] and [10:00, 11:00]
C25_Witness ==
    /\ probeResult.kind \in {"slot", "none"}
    /\ Len(ProbeMerged) = 2
    /\ ProbeMerged[1].e = ProbeMerged[2].s
    /\ ProbeMerged[1].e = timedelta(600)

\* C30 as stated: every slot find_earliest_slot returns starts and ends on
\* the same calendar day, with its start no later than the end of the
\* combined working window on that day: the engine never returns a slot that
\* begins after latestEndHour or runs across midnight.
C30_SlotWithinOneDay ==
    probeResult.kind = "slot" =>
        /\ probeResult.s \div 86400 = probeResult.e \div 86400
        /\ \E u \in AttendeeSet :
               probeResult.s <= (probeResult.s \div 86400) * 86400
                                    + get_user_preferences(u).end * 3600

\* ------------------------------------------------------------------------
\* Further properties of the displacement resolver (under Spec)
\* ------------------------------------------------------------------------
RelocatedOutcomes == { j \in 1..Len(outcomes) : outcomes[j].kind = "relocated" }

\* C22: every meeting reported as rescheduled gets a new start time that
\* differs from its original start: the new start is strictly later than the
\* original start.
C22_RelocatedStartsLater ==
    \A j \in RelocatedOutcomes : outcomes[j].start > outcomes[j].original_start

\* A run in which a meeting displaced by the new meeting has been relocated
\* and a meeting displaced by that relocation has been relocated too
C22_Witness ==
    /\ pc = "Done"
    /\ Cardinality(RelocatedOutcomes) >= 2
    /\ \E j \in RelocatedOutcomes :
           ~InList(SearchedMeeting(j), booking.slot.displaced)

\* C23 as stated: a relocated meeting keeps its own length, priority and
\* title: for every 'relocated' outcome new_end - new_start equals
\* original_end - original_start, and the tuple appended to the working
\* calendars carries the original priority and title.
C23_RelocatedKeepsLength ==
    \A j \in RelocatedOutcomes :
        /\ outcomes[j].end - outcomes[j].start
               = outcomes[j].original_end - outcomes[j].original_start
        /\ OnWorkingCalendars(Event(outcomes[j].start, outcomes[j].end,
                                    SearchedMeeting(j).p,
                                    SearchedMeeting(j).t))

\* ------------------------------------------------------------------------
\* Further properties of the booking orchestrator (under Spec)
\* ------------------------------------------------------------------------
\* Every attendee's input calendar is empty
AllCalendarsEmpty ==
    /\ user_calendars.keys # <<>>
    /\ \A u \in DOMAIN user_calendars.val : user_calendars.val[u] = <<>>

\* The slot that starts at the requested origin passes the working-hours
\* check and scores within the tolerance of the primary search
OriginSlotPasses ==
    LET start == request.start.v
        end == start + timedelta(DurationOf(request).v)
        attendees == user_calendars.keys
        empty == [u \in DOMAIN user_calendars.val |-> <<>>]
    IN  /\ StartHourOk(start, attendees)
        /\ EndHourOk(end, attendees)
        /\ ScoreOk(start, end, attendees, empty, 100)

\* C24 as stated: when every attendee's calendar is empty and the slot that
\* starts at the requested origin passes the working-hours check with a
\* preference score within the tolerance, the booking succeeds with the slot
\* starting exactly at the requested origin, with no rescheduling required
\* and exactly one meeting in the output.
C24_EmptyCalendarsBookAtOrigin ==
    ( /\ Terminal
      /\ AllCalendarsEmpty
      /\ request.start.tag = "int"
      /\ ~InvalidShape
      /\ OriginSlotPasses )
    => /\ response.kind = "dict"
       /\ response.success
       /\ Len(response.meetings) = 1
       /\ response.meetings[1].start = request.start.v
       /\ response.meetings[1].end
              = request.start.v + timedelta(DurationOf(request).v)
       /\ ~response.rescheduling_required

\* The new meeting as requirewna puts it on the working calendars
NewTuple ==
    Event(booking.slot.s, booking.slot.e, PriorityOf(request).v,
          request.subject.v)

\* C26: along any cascade of relocations the priority number strictly
\* increases: the relocation of a priority-q meeting displaces only meetings
\* of priority greater than q, so the resolver nests at most 4 - p levels
\* deep for a new meeting of priority p (at most 3), and the relocation of a
\* priority-4 meeting displaces nothing.
C26_CascadePrioritiesIncrease ==
    /\ \A i \in 1..Len(RescheduleCalls) :
           RescheduleCalls[i].ret.kind = "slot" =>
               /\ \A k \in 1..Len(RescheduleCalls[i].ret.displaced) :
                      RescheduleCalls[i].ret.displaced[k].p
                          > RescheduleCalls[i].priority.v
               /\ RescheduleCalls[i].priority.v = 4 =>
                      RescheduleCalls[i].ret.displaced = <<>>
    /\ pc = "Resolving" =>
           /\ Len(stack) <= 4 - PriorityOf(request).v
           /\ Len(stack) <= 3
           /\ \A k \in 1..Len(stack) :
                  \A i \in 1..Len(stack[k].list) :
                      stack[k].list[i].p >= PriorityOf(request).v + k

\* A priority-2 request has displaced a priority-3 meeting whose relocation
\* has displaced a priority-4 meeting: the resolver is two levels deep
C26_Witness ==
    /\ pc = "Resolving"
    /\ PriorityOf(request).v = 2
    /\ Len(stack) = 2
    /\ stack[1].list[1].p = 3
    /\ stack[2].list[1].p = 4

\* C27: no relocated meeting overlaps the newly booked meeting: every
\* 'relocated' outcome, at any cascade depth, has its new start at or after
\* the end of the new meeting's slot, and the new meeting itself is never
\* chosen for displacement during resolution.
C27_RelocatedAfterNewMeeting ==
    /\ \A j \in RelocatedOutcomes : outcomes[j].start >= booking.slot.e
    /\ \A i \in 1..Len(RescheduleCalls) :
           RescheduleCalls[i].ret.kind = "slot" =>
               ~InList(NewTuple, RescheduleCalls[i].ret.displaced)

\* A displaced meeting has been relocated to start exactly at the end of the
\* new meeting, where it has displaced a further meeting that has been
\* relocated in turn
C27_Witness ==
    /\ pc = "Done"
    /\ \E j \in RelocatedOutcomes : outcomes[j].start = booking.slot.e
    /\ \E i \in 1..Len(RescheduleCalls) :
           /\ RescheduleCalls[i].ret.kind = "slot"
           /\ RescheduleCalls[i].ret.s = booking.slot.e
           /\ RescheduleCalls[i].ret.displaced # <<>>
    /\ \A j \in 1..Len(outcomes) : j \in RelocatedOutcomes

\* No two tuples of the list overlap
OverlapFree(list) ==
    \A i, j \in 1..Len(list) :
        i < j => ~(list[i].s < list[j].e /\ list[j].s < list[i].e)

\* No participant's calendar holds two overlapping events, neither in the
\* lists passed to the orchestrator nor after normalization
InputsOverlapFree ==
    /\ \A u \in DOMAIN user_calendars.val :
           \A i, j \in 1..Len(user_calendars.val[u]) :
               i < j =>
                   ~( /\ user_calendars.val[u][i].StartTime.v
                             < user_calendars.val[u][j].EndTime.v
                      /\ user_calendars.val[u][j].StartTime.v
                             < user_calendars.val[u][i].EndTime.v )
    /\ \A u \in DOMAIN parsed_calendars.val :
           OverlapFree(parsed_calendars.val[u])

\* C28 as stated: if no participant's input calendar contains two
\* overlapping events, then after the displacement resolver has completed
\* with every outcome 'relocated', no participant's working calendar
\* contains two overlapping events.
C28_WorkingCalendarsOverlapFree ==
    ( /\ pc = "Done"
      /\ outcomes # <<>>
      /\ \A j \in 1..Len(outcomes) : j \in RelocatedOutcomes
      /\ InputsOverlapFree )
    => \A u \in DOMAIN updated_calendars : OverlapFree(updated_calendars[u])

NoRepeats(list) ==
    \A i, j \in 1..Len(list) : i # j => list[i] # list[j]

\* The input holds no two different meetings with the same time, priority
\* and title
DistinctMeetings ==
    \A m, n \in InputMeetings : m # n => ParsedTuple(m) # ParsedTuple(n)

\* C29 as stated: each distinct displaced meeting is processed once: the
\* displacement list returned by find_earliest_slot contains no meeting
\* twice, and the resolver produces exactly one outcome (relocated or needs
\* manual intervention) per distinct displaced meeting, also when the
\* displaced meeting is shared by several attendees.
C29_EachDisplacedOnce ==
    DistinctMeetings =>
        /\ \A i \in 1..Len(calls) :
               calls[i].ret.kind = "slot" => NoRepeats(calls[i].ret.displaced)
        /\ \A j, k \in 1..Len(outcomes) :
               j # k => SearchedMeeting(j) # SearchedMeeting(k)
        /\ pc = "Done" /\ booking.slot.displaced # <<>> =>
               \A i \in 1..Len(booking.slot.displaced) :
                   \E j \in 1..Len(outcomes) :
                       SearchedMeeting(j) = booking.slot.displaced[i]

====
